---------------------------- MODULE Spec2Model ----------------------------
(***************************************************************************)
(* The asynchronous video task subsystem of pytorch-openpose:              *)
(*   app/core/video_task_manager.py  (VideoTaskManager, the class the API  *)
(*                                    in app/api/video.py drives)          *)
(*   app/core/video_service.py       (VideoProcessingService, the sibling  *)
(*                                    implementation of the same loop)     *)
(*   app/core/ffmpeg_utils.py        (FFmpegWriter, the external muxer)    *)
(*   app/api/video.py                (pause / resume / delete / cleanup)   *)
(*                                                                         *)
(* Time is counted in hours: time.time() is `now`, and the comparison      *)
(* (current_time - start_time) > max_age_hours * 3600 of cleanup_old_tasks *)
(* is  now - start_time > max_age_hours.  0 stands for None.               *)
(***************************************************************************)
EXTENDS Integers, Sequences, FiniteSets, TLC

\* ------------------------------------------------------------- bounds
TaskIds == {1, 2}
MaxFrames == 5
MaxFramesTwo == 1
MaxTime == 2
MaxAge == 0
\* the frame counts a probe reports
ProbedFrames == {0, 2}

\* ------------------------------------------------------------- constants
PENDING == "pending"
PROCESSING == "processing"
COMPLETED == "completed"
FAILED == "failed"
PAUSED == "paused"

NoFile == [exists |-> FALSE, frames |-> << >>, sound |-> FALSE]
NoRet == [op |-> "none"]
NoDet == [pc |-> "off"]

VARIABLES
  scope,            \* what a behaviour may use: the task ids, the number of decoded frames, the probed frame counts
  impl,             \* "manager" (VideoTaskManager) or "service" (VideoProcessingService)
  ffmpeg_available, \* self.ffmpeg_available, probed once at construction
  tasks,            \* keys of self.tasks
  task,             \* the VideoTask objects, by task id
  video,            \* per task: the uploaded input: "absent", "unreadable" or "ok"
  file,             \* per task: the output file on disk
  rt,               \* per task: the processing routine (its position and locals)
  now,              \* time.time()
  owner,            \* who holds the event loop: 0 nobody, t the cooperative routine of task t
  creating,         \* task whose create_video_task started a thread and has not returned yet (0: none)
  ret,              \* the response a handler has just returned (NoRet once delivered)
  det               \* the detection call in progress (body.py, hand.py, detection_service.py)

vars == <<scope, impl, ffmpeg_available, tasks, task, video, file, rt, now, owner, creating, ret, det>>

\* VideoTask.__init__
VideoTask ==
  [status |-> PENDING, progress |-> <<0, 1>>, total_frames |-> 0,
   processed_frames |-> 0, start_time |-> 0, end_time |-> 0,
   error_message |-> "None"]

\* the routine before create_video_task schedules it
NoRoutine ==
  [pc |-> "none", mode |-> "none", cap |-> "None", pos |-> 0, frame_count |-> 0,
   writer |-> "None", writer_open |-> FALSE, use_ffmpeg |-> FALSE,
   posed |-> "none", fallback_at |-> 0, yields |-> 0]

InitState ==
  /\ tasks = {}
  /\ task = [t \in TaskIds |-> VideoTask]
  /\ video = [t \in TaskIds |-> "absent"]
  /\ file = [t \in TaskIds |-> NoFile]
  /\ rt = [t \in TaskIds |-> NoRoutine]
  /\ now = 1
  /\ owner = 0
  /\ creating = 0
  /\ ret = NoRet

\* either class, with or without ffmpeg on the host; one task, a long input
Init ==
  /\ scope = [ids |-> {1}, frames |-> MaxFrames, probed |-> ProbedFrames]
  /\ impl \in {"manager", "service"}
  /\ ffmpeg_available \in BOOLEAN
  /\ InitState
  /\ det = NoDet

\* the manager the API drives, on a host with ffmpeg; two tasks, short inputs
InitTwo ==
  /\ scope = [ids |-> TaskIds, frames |-> MaxFramesTwo, probed |-> ProbedFrames \ {0}]
  /\ impl = "manager"
  /\ ffmpeg_available = TRUE
  /\ InitState
  /\ det = NoDet


\* ------------------------------------------------------------- helpers
\* task.status = FAILED; task.error_message = str(e); task.end_time = time.time()
Fail(tk, msg, time) ==
  [tk EXCEPT !.status = FAILED, !.error_message = msg, !.end_time = time]

\* mutant: the percentage is not clamped
ProgressUnclamped(fc, total) == <<fc * 100, total>>

\* min(frame_count / task.total_frames * 100, 100.0), as the fraction <<numerator, denominator>>
Progress(fc, total) ==
  IF fc >= total THEN <<100, 1>> ELSE <<fc * 100, total>>

\* the frame loop's await points: does the routine yield after its fc-th frame?
Yields(i, fc, contended) ==
  IF i = "manager"
  THEN fc % 5 = 0
  ELSE fc % 2 = 0 \/ fc % 10 = 0 \/ (contended /\ fc % 5 = 0)

\* is the per-frame call of process_frame inside a try/except?
CatchesDetection(i) == i = "service"

\* the file a writer has just opened at the output path
FreshFile == [exists |-> TRUE, frames |-> << >>, sound |-> FALSE]

\* a frame handed to the writer reaches the file the writer holds, if it is still linked
WriteTo(f, k) == IF f.exists THEN [f EXCEPT !.frames = Append(f.frames, k)] ELSE f

\* _validate_output_video: exists, >= 1 KB, openable, frame count / fps / size positive
Validate(f) == f.exists /\ Len(f.frames) > 0 /\ f.sound

\* the environment of one loop iteration
FrameEnv ==
  [det : {"ok", "raised"}, mux_ctor : BOOLEAN, cv_open : BOOLEAN,
   write : BOOLEAN, fb_write : BOOLEAN, contended : BOOLEAN]

\* the routine's exit through `except Exception as e`
Abort(tk, r, f, msg, time) ==
  [task |-> Fail(tk, msg, time), rt |-> [r EXCEPT !.pc = "done"], file |-> f]

\* frame_count += 1; processed_frames; progress; the await points
Counted(i, tk, r, f, e) ==
  LET fc == r.frame_count + 1 IN
  [task |-> [tk EXCEPT !.processed_frames = fc,
                       !.progress = IF tk.total_frames > 0
                                    THEN Progress(fc, tk.total_frames) ELSE @],
   rt   |-> [r EXCEPT !.frame_count = fc,
                      !.yields = IF Yields(i, fc, e.contended) THEN 1 ELSE 0],
   file |-> f]

\* mutant: a failed write is ignored, the frame is dropped or counted and the loop goes on
WriteFrameDropsFailed(i, tk, r, f, e, time) ==
  IF r.use_ffmpeg \/ e.write
  THEN Counted(i, tk, r, IF e.write THEN WriteTo(f, r.pos) ELSE f, e)
  ELSE [task |-> tk, rt |-> r, file |-> f]

\* the write of the current frame, with the mid-stream fallback to cv2.VideoWriter
WriteFrame(i, tk, r, f, e, time) ==
  LET k == r.pos IN
  IF r.use_ffmpeg
  THEN IF e.write
       THEN Counted(i, tk, r, WriteTo(f, k), e)
       ELSE \* writer.close(); writer = cv2.VideoWriter(...)
            LET r1 == [r EXCEPT !.writer_open = FALSE] IN
            IF ~e.cv_open
            THEN Abort(tk, r1, f, IF i = "manager" THEN "writer" ELSE "fallback", time)
            ELSE LET r2 == [r1 EXCEPT !.writer = "VideoWriter", !.writer_open = TRUE,
                                      !.use_ffmpeg = FALSE, !.fallback_at = k]
                 IN IF e.fb_write
                    THEN Counted(i, tk, r2, WriteTo(FreshFile, k), e)
                    ELSE Abort(tk, r2, FreshFile,
                               IF i = "manager" THEN "write" ELSE "fallback", time)
  ELSE IF e.write
       THEN Counted(i, tk, r, WriteTo(f, k), e)
       ELSE Abort(tk, r, f, "write", time)

\* the lazy construction of the writer on the first frame
InitWriter(i, tk, r, f, e, time) ==
  IF r.writer # "None"
  THEN WriteFrame(i, tk, r, f, e, time)
  ELSE IF r.use_ffmpeg /\ e.mux_ctor
       THEN \* FFmpegWriter.__init__ removes the file and starts the muxer
            WriteFrame(i, tk, [r EXCEPT !.writer = "FFmpegWriter", !.writer_open = TRUE],
                       FreshFile, e, time)
       ELSE LET f1 == IF r.use_ffmpeg THEN NoFile ELSE f
                r1 == [r EXCEPT !.use_ffmpeg = FALSE] IN
            IF e.cv_open
            THEN WriteFrame(i, tk, [r1 EXCEPT !.writer = "VideoWriter", !.writer_open = TRUE],
                            FreshFile, e, time)
            ELSE Abort(tk, r1, f1, "writer", time)

\* one iteration of `while cap.isOpened()` on a frame the decoder yields
FrameStep(i, tk, r, f, e, time) ==
  LET r0 == [r EXCEPT !.pc = "loop", !.pos = @ + 1, !.yields = 0,
                      !.posed = IF e.det = "ok" THEN "canvas" ELSE "frame"] IN
  IF e.det = "raised" /\ ~CatchesDetection(i)
  THEN Abort(tk, [r0 EXCEPT !.posed = "none"], f, "detect", time)
  ELSE InitWriter(i, tk, r0, f, e, time)

\* mutant: the result of _validate_output_video is ignored
FinishStepNoValidation(tk, r, f, final_ok, time) ==
  [task |-> [tk EXCEPT !.status = COMPLETED, !.end_time = time, !.progress = <<100, 1>>],
   rt |-> [r EXCEPT !.cap = "released", !.writer_open = FALSE, !.pc = "done", !.yields = 0],
   file |-> IF r.writer # "None" /\ f.exists THEN [f EXCEPT !.sound = final_ok] ELSE f]

\* after the loop: cap.release(), writer.close()/release(), validation
FinishStep(tk, r, f, final_ok, time) ==
  LET f1 == IF r.writer # "None" /\ f.exists THEN [f EXCEPT !.sound = final_ok] ELSE f
      r1 == [r EXCEPT !.cap = "released", !.writer_open = FALSE, !.pc = "done", !.yields = 0]
  IN IF Validate(f1)
     THEN [task |-> [tk EXCEPT !.status = COMPLETED, !.end_time = time, !.progress = <<100, 1>>],
           rt |-> r1, file |-> f1]
     ELSE [task |-> Fail(tk, "invalid", time), rt |-> r1, file |-> f1]


\* ------------------------------------------------------------- create_video_task
\* uuid.uuid4(): an id no task has had
FreshId(t) == video[t] = "absent" /\ \A u \in TaskIds : u < t => video[u] # "absent"

\* get_video_info raised: the record is stored as failed, nothing is scheduled
ProbeFailed(tk) ==
  [tk EXCEPT !.status = FAILED, !.error_message = "probe"]

\* mutant: the routine's first statements run inside create_video_task
CreatedInline(tk, probe_ok, p, m) ==
  IF probe_ok
  THEN [task |-> [tk EXCEPT !.total_frames = p, !.status = PROCESSING],
        rt   |-> [NoRoutine EXCEPT !.pc = "scheduled", !.mode = m]]
  ELSE [task |-> ProbeFailed(tk), rt |-> NoRoutine]

\* mutant: the `return task_id` of the probe-failure branch is missing
CreatedFallsThrough(tk, probe_ok, p, m) ==
  [task |-> IF probe_ok THEN [tk EXCEPT !.total_frames = p] ELSE ProbeFailed(tk),
   rt   |-> [NoRoutine EXCEPT !.pc = "scheduled", !.mode = m]]

\* the record and routine create_video_task leaves behind
Created(tk, probe_ok, p, m) ==
  IF probe_ok
  THEN [task |-> [tk EXCEPT !.total_frames = p],
        rt   |-> [NoRoutine EXCEPT !.pc = "scheduled", !.mode = m]]
  ELSE [task |-> ProbeFailed(tk), rt |-> NoRoutine]

\* asyncio.create_task succeeds (m = "coop": the caller runs on the event loop) or
\* raises RuntimeError and a daemon thread is started (m = "thread")
CreateTask(t, p, probe_ok, m) ==
  /\ ret = NoRet /\ creating = 0
  /\ t \in scope.ids /\ FreshId(t) /\ p \in scope.probed
  /\ m = "coop" => owner = 0
  /\ LET c == Created(VideoTask, probe_ok, p, m) IN
     /\ task' = [task EXCEPT ![t] = c.task]
     /\ rt' = [rt EXCEPT ![t] = c.rt]
     /\ creating' = IF c.rt.mode = "thread" THEN t ELSE 0
  /\ video' = [video EXCEPT ![t] = IF probe_ok THEN "ok" ELSE "unreadable"]
  /\ tasks' = tasks \cup {t}
  /\ UNCHANGED <<det, scope, impl, ffmpeg_available, file, now, owner, ret>>

\* the return of a create_video_task that started a background thread
CreateReturn ==
  /\ ret = NoRet /\ creating # 0
  /\ creating' = 0
  /\ UNCHANGED <<det, scope, impl, ffmpeg_available, tasks, task, video, file, rt, now, owner, ret>>

\* ------------------------------------------------------------- _process_video_async
\* a cooperative routine runs when the loop is free or it holds it; a thread runs
\* anytime, also while a call of cleanup_old_tasks is between its two loops or a pause
\* or resume handler is between its check and its assignment
CanRun(t) ==
  \/ ret = NoRet /\ (rt[t].mode = "thread" \/ owner \in {0, t})
  \/ ret.op \in {"cleaning", "pausing", "resuming"} /\ rt[t].mode = "thread"

\* who holds the loop after a step of t's routine
Hold(t, r) ==
  IF r.mode = "coop"
  THEN IF r.pc \in {"open", "infer"} \/ (r.pc = "loop" /\ r.yields = 0) THEN t ELSE 0
  ELSE owner

\* task.status = PROCESSING; task.start_time = time.time()
StartStep(tk, r, f, time) ==
  [task |-> [tk EXCEPT !.status = PROCESSING, !.start_time = time],
   rt |-> [r EXCEPT !.pc = "open"], file |-> f]

\* cap = cv2.VideoCapture(task.input_file); if not cap.isOpened(): raise
OpenStep(tk, r, f, cap_ok, avail, time) ==
  IF cap_ok
  THEN [task |-> tk, rt |-> [r EXCEPT !.pc = "loop", !.cap = "open", !.use_ffmpeg = avail],
        file |-> f]
  ELSE Abort(tk, r, f, "open", time)

Apply(t, out) ==
  /\ task' = [task EXCEPT ![t] = out.task]
  /\ rt' = [rt EXCEPT ![t] = out.rt]
  /\ file' = [file EXCEPT ![t] = out.file]
  /\ owner' = Hold(t, out.rt)
  /\ UNCHANGED <<det, scope, impl, ffmpeg_available, tasks, video, now, creating, ret>>

Start(t) ==
  /\ rt[t].pc = "scheduled" /\ CanRun(t)
  /\ Apply(t, StartStep(task[t], rt[t], file[t], now))

Open(t) ==
  /\ rt[t].pc = "open" /\ CanRun(t)
  /\ \E cap_ok \in BOOLEAN :
       Apply(t, OpenStep(task[t], rt[t], file[t], cap_ok, ffmpeg_available, now))

\* iterations finished so far, over all tasks: further frames are read while it is below scope.frames
RECURSIVE Decoded(_)
Decoded(S) ==
  IF S = {} THEN 0 ELSE LET t == CHOOSE x \in S : TRUE IN rt[t].pos + Decoded(S \ {t})

\* ret, frame = cap.read() gives a frame and the routine enters process_frame
InferStep(tk, r, f) ==
  [task |-> tk, rt |-> [r EXCEPT !.pc = "infer"], file |-> f]

\* cap.read() yields a frame: video_service.process_frame(frame, ...) is called
Infer(t) ==
  /\ rt[t].pc = "loop" /\ CanRun(t)
  /\ Decoded(TaskIds) < scope.frames
  /\ Apply(t, InferStep(task[t], rt[t], file[t]))

\* process_frame returns or raises; the rest of the iteration
Frame(t) ==
  /\ rt[t].pc = "infer" /\ CanRun(t)
  /\ \E e \in FrameEnv : Apply(t, FrameStep(impl, task[t], rt[t], file[t], e, now))

\* cap.read() reports the end of the stream
Finish(t) ==
  /\ rt[t].pc = "loop" /\ CanRun(t)
  /\ \E final_ok \in BOOLEAN : Apply(t, FinishStep(task[t], rt[t], file[t], final_ok, now))

\* ------------------------------------------------------------- handlers of app/api/video.py
\* request handlers run on the event loop, between the slices of the cooperative routines
Handler == ret = NoRet /\ creating = 0 /\ owner = 0

\* variant: pause_task without its two checks
PauseChecksNothing(tid) ==
  /\ Handler
  /\ ret' = [op |-> "pausing", tid |-> tid]
  /\ UNCHANGED <<det, scope, impl, ffmpeg_available, tasks, task, video, file, rt, now, owner, creating>>

\* pause_task, up to its checks of the snapshot get_task_status returned: 404 for an
\* unknown id, 400 for a status other than processing
Pause(tid) ==
  /\ Handler
  /\ IF tid \in tasks /\ task[tid].status = PROCESSING
     THEN ret' = [op |-> "pausing", tid |-> tid]
     ELSE ret' = ret
  /\ UNCHANGED <<det, scope, impl, ffmpeg_available, tasks, task, video, file, rt, now, owner, creating>>

\* pause_task: task.status = "paused" and the response
PauseWrite ==
  /\ ret.op = "pausing"
  /\ task' = IF ret.tid \in tasks THEN [task EXCEPT ![ret.tid].status = PAUSED] ELSE task
  /\ ret' = NoRet
  /\ UNCHANGED <<det, scope, impl, ffmpeg_available, tasks, video, file, rt, now, owner, creating>>

\* resume_task, up to its checks: 404 for an unknown id, 400 for a status other than paused
Resume(tid) ==
  /\ Handler
  /\ IF tid \in tasks /\ task[tid].status = PAUSED
     THEN ret' = [op |-> "resuming", tid |-> tid]
     ELSE ret' = ret
  /\ UNCHANGED <<det, scope, impl, ffmpeg_available, tasks, task, video, file, rt, now, owner, creating>>

\* resume_task: task.status = VideoTaskStatus.PROCESSING and the response
ResumeWrite ==
  /\ ret.op = "resuming"
  /\ task' = IF ret.tid \in tasks THEN [task EXCEPT ![ret.tid].status = PROCESSING] ELSE task
  /\ ret' = NoRet
  /\ UNCHANGED <<det, scope, impl, ffmpeg_available, tasks, video, file, rt, now, owner, creating>>

\* delete_task: only a completed task's snapshot carries output_file
Delete(tid) ==
  /\ Handler
  /\ IF tid \in tasks /\ task[tid].status # PROCESSING
     THEN /\ tasks' = tasks \ {tid}
          /\ file' = IF task[tid].status = COMPLETED THEN [file EXCEPT ![tid] = NoFile] ELSE file
     ELSE tasks' = tasks /\ file' = file
  /\ UNCHANGED <<det, scope, impl, ffmpeg_available, task, video, rt, now, owner, creating, ret>>

\* ------------------------------------------------------------- get_task_status
\* a dict without keys
Empty == [k \in {} |-> 0]

\* mutant: output_file is reported whatever the status
ToDictAlwaysOutput(tid, tk, time) ==
  [task_id |-> tid, status |-> tk.status, progress |-> tk.progress,
   total_frames |-> tk.total_frames, processed_frames |-> tk.processed_frames,
   output_file |-> tid]
  @@ (IF tk.start_time # 0
      THEN ("start_time" :> tk.start_time)
           @@ (IF tk.end_time # 0
               THEN "processing_time" :> (tk.end_time - tk.start_time)
               ELSE "elapsed_time" :> (time - tk.start_time))
      ELSE Empty)
  @@ (IF tk.error_message # "None" THEN "error_message" :> tk.error_message ELSE Empty)

\* VideoTask.to_dict at time `time`
ToDict(tid, tk, time) ==
  [task_id |-> tid, status |-> tk.status, progress |-> tk.progress,
   total_frames |-> tk.total_frames, processed_frames |-> tk.processed_frames]
  @@ (IF tk.start_time # 0
      THEN ("start_time" :> tk.start_time)
           @@ (IF tk.end_time # 0
               THEN "processing_time" :> (tk.end_time - tk.start_time)
               ELSE "elapsed_time" :> (time - tk.start_time))
      ELSE Empty)
  @@ (IF tk.error_message # "None" THEN "error_message" :> tk.error_message ELSE Empty)
  @@ (IF tk.status = COMPLETED THEN "output_file" :> tid ELSE Empty)

\* get_task_status: None (here the dict without keys) for an unknown id
GetTaskStatus(tid) ==
  IF tid \in tasks THEN ToDict(tid, task[tid], now) ELSE Empty

\* ------------------------------------------------------------- cleanup_old_tasks
\* task.start_time and (current_time - task.start_time) > (max_age_hours * 3600)
IsOld(tk, current_time, max_age_hours) ==
  tk.start_time # 0 /\ current_time - tk.start_time > max_age_hours

\* to_remove
ToRemove(max_age_hours) == {t \in tasks : IsOld(task[t], now, max_age_hours)}

\* the first loop: os.remove of the output file of every old task that has one
Cleanup(max_age_hours) ==
  /\ Handler
  /\ LET to_remove == ToRemove(max_age_hours) IN
     /\ file' = [t \in TaskIds |-> IF t \in to_remove THEN NoFile ELSE file[t]]
     /\ ret' = [op |-> "cleaning", max_age |-> max_age_hours, to_remove |-> to_remove]
  /\ UNCHANGED <<det, scope, impl, ffmpeg_available, tasks, task, video, rt, now, owner, creating>>

\* the second loop, del self.tasks[tid], and return len(to_remove)
CleanupReturn ==
  /\ ret.op = "cleaning"
  /\ tasks' = tasks \ ret.to_remove
  /\ ret' = [op |-> "cleanup", max_age |-> ret.max_age, n |-> Cardinality(ret.to_remove)]
  /\ UNCHANGED <<det, scope, impl, ffmpeg_available, task, video, file, rt, now, owner, creating>>

\* the caller takes the response
Deliver ==
  /\ ret.op = "cleanup"
  /\ ret' = NoRet
  /\ UNCHANGED <<det, scope, impl, ffmpeg_available, tasks, task, video, file, rt, now, owner, creating>>

\* ------------------------------------------------------------- time
Tick ==
  /\ ret = NoRet
  /\ now < MaxTime
  /\ now' = now + 1
  /\ UNCHANGED <<det, scope, impl, ffmpeg_available, tasks, task, video, file, rt, owner, creating, ret>>

Next ==
  \/ \E t \in TaskIds, p \in ProbedFrames, probe_ok \in BOOLEAN, m \in {"coop", "thread"} :
       CreateTask(t, p, probe_ok, m)
  \/ CreateReturn
  \/ \E t \in TaskIds : Start(t)
  \/ \E t \in TaskIds : Open(t)
  \/ \E t \in TaskIds : Infer(t)
  \/ \E t \in TaskIds : Frame(t)
  \/ \E t \in TaskIds : Finish(t)
  \/ \E t \in TaskIds : Pause(t)
  \/ PauseWrite
  \/ \E t \in TaskIds : Resume(t)
  \/ ResumeWrite
  \/ \E t \in TaskIds : Delete(t)
  \/ \E a \in 0..MaxAge : Cleanup(a)
  \/ CleanupReturn
  \/ Deliver
  \/ Tick

Spec == Init /\ [][Next]_vars

SpecTwo == InitTwo /\ [][Next]_vars


\* ============================================================= claims
Exists(t) == video[t] # "absent"

\* C1: every change of a task's status is one of pending->processing,
\* processing->completed, processing->failed, processing->paused, paused->processing.
StatusSteps ==
  {<<PENDING, PROCESSING>>, <<PROCESSING, COMPLETED>>, <<PROCESSING, FAILED>>,
   <<PROCESSING, PAUSED>>, <<PAUSED, PROCESSING>>}

C1_StatusLifecycle ==
  [][\A t \in TaskIds :
       Exists(t) /\ task'[t].status # task[t].status
         => <<task[t].status, task'[t].status>> \in StatusSteps]_vars

\* C2: when the routine of a task has ended, the probed frame count equals the number
\* of frames the decoder yielded, and nothing failed in opening the input, creating the
\* writer, writing or validating, the task is completed with
\* processed_frames = total_frames = N and progress = 100.
WriteOrValidationErrors == {"open", "writer", "write", "fallback", "invalid"}

C2_CompletesWithAllFrames ==
  \A t \in TaskIds :
    ( /\ rt[t].pc = "done"
      /\ rt[t].pos = task[t].total_frames
      /\ task[t].error_message \notin WriteOrValidationErrors )
    => /\ task[t].status = COMPLETED
       /\ task[t].processed_frames = task[t].total_frames
       /\ task[t].progress = <<100, 1>>

\* the step in which create_video_task returns the id of t, its probe having succeeded
Returns(t) ==
  \/ creating = t /\ creating' = 0
  \/ video[t] = "absent" /\ video'[t] = "ok" /\ creating' = 0

\* C3 (as stated): at the moment create_video_task returns, the status is pending or
\* processing, on the event loop and on a background thread alike.
C3_ReturnsPendingOrProcessing ==
  [][\A t \in TaskIds : Returns(t) => task'[t].status \in {PENDING, PROCESSING}]_vars

\* C3 (amended): a create_video_task that scheduled the routine on the running event
\* loop returns with the task pending and the routine not yet started.
C3_CoopReturnsPending ==
  [][\A t \in TaskIds :
       Returns(t) /\ rt'[t].mode = "coop"
         => task'[t].status = PENDING /\ rt'[t].pc = "scheduled" /\ t \in tasks']_vars

C3_Witness ==
  \E t \in TaskIds :
    rt[t].mode = "coop" /\ rt[t].pc = "scheduled" /\ task[t].status = PENDING /\ t \in tasks

\* C4: a task whose probe failed is stored, is failed with an error message, has no
\* routine, and its status, progress and processed_frames never change.
C4_ProbeFailureIsFinal ==
  [][\A t \in TaskIds :
       video'[t] = "unreadable"
         => /\ task'[t].status = FAILED
            /\ task'[t].error_message = "probe"
            /\ task'[t].progress = <<0, 1>>
            /\ task'[t].processed_frames = 0
            /\ rt'[t].pc = "none"
            /\ (video[t] = "absent" => t \in tasks')]_vars

C4_Witness ==
  \E t \in TaskIds :
    video[t] = "unreadable" /\ t \in tasks /\ task[t].status = FAILED /\ now > 1

\* the step of t's routine in which the detection call on a frame raised
DetectionRaised(t) ==
  rt'[t].pos = rt[t].pos + 1 /\ rt'[t].posed # "canvas"

\* C5: when detection raises on a frame, the task does not fail because of it; the raw
\* frame is written, processed_frames grows by one and the loop goes on.
C5_DetectionErrorRecovered ==
  [][\A t \in TaskIds :
       DetectionRaised(t)
         => /\ task'[t].error_message # "detect"
            /\ task'[t].status # FAILED
                 => /\ rt'[t].posed = "frame"
                    /\ file'[t].exists => file'[t].frames # << >>
                                          /\ file'[t].frames[Len(file'[t].frames)] = rt'[t].pos
                    /\ task'[t].processed_frames = task[t].processed_frames + 1
                    /\ rt'[t].pc = "loop"]_vars

\* C6: when a muxer write fails on frame k the muxer is closed, a basic writer is
\* created and frame k goes through it; and a task that fell back, whose basic writer
\* opened and wrote and whose output validated, ends completed.
BasicWriterErrors == {"writer", "write", "fallback", "invalid"}

C6_FallbackCompletes ==
  [][\A t \in TaskIds :
       /\ rt[t].fallback_at = 0 /\ rt'[t].fallback_at # 0
            => /\ rt'[t].writer = "VideoWriter" /\ ~rt'[t].use_ffmpeg
               /\ task'[t].status # FAILED => file'[t].frames = <<rt'[t].fallback_at>>
       /\ ( /\ rt'[t].fallback_at # 0 /\ rt'[t].pc = "done"
            /\ task'[t].error_message \notin BasicWriterErrors )
            => task'[t].status = COMPLETED]_vars

\* C7: a task becomes completed only in a step that leaves the decoder and the writer
\* released and the output file existing, with frames and sound; and the end of the
\* loop on an invalid output file leaves the task failed.
C7_CompletedOnlyValidated ==
  [][\A t \in TaskIds :
       /\ task'[t].status = COMPLETED /\ task[t].status # COMPLETED
            => /\ rt'[t].cap = "released" /\ ~rt'[t].writer_open
               /\ file'[t].exists /\ Len(file'[t].frames) > 0 /\ file'[t].sound
       /\ ( /\ rt[t].cap = "open" /\ rt'[t].cap = "released"
            /\ ~(file'[t].exists /\ Len(file'[t].frames) > 0 /\ file'[t].sound) )
            => task'[t].status = FAILED /\ task'[t].error_message = "invalid"]_vars

C7_Witness ==
  \E t \in TaskIds :
    task[t].status = COMPLETED /\ task[t].processed_frames >= 2 /\ rt[t].fallback_at # 0

\* C8: every failed task has an error message and an end time.
C8_FailedHasMessageAndEndTime ==
  \A t \in TaskIds :
    task[t].status = FAILED => task[t].error_message # "None" /\ task[t].end_time # 0

\* C9: when cleanup_old_tasks(max_age_hours) returns, every task started more than
\* max_age_hours ago, whatever its status, is out of the collection and has no output
\* file, every other task and file is as it was, and the number returned is the number
\* of records removed.
C9_CleanupRemovesOld ==
  [][ret.op = "cleaning" /\ ret'.op = "cleanup" =>
       /\ \A t \in tasks :
            IF IsOld(task[t], now, ret.max_age)
            THEN t \notin tasks' /\ ~file'[t].exists
            ELSE t \in tasks' /\ file'[t] = file[t]
       /\ ret'.n = Cardinality(tasks \ tasks')]_vars

\* C10: get_task_status returns None for an unknown id; for a known task the snapshot
\* has output_file iff the status is completed, processing_time iff start and end time
\* are set, elapsed_time iff started and not ended, error_message iff one was recorded.
C10_StatusShape ==
  \A t \in TaskIds :
    LET d == GetTaskStatus(t) IN
    IF t \notin tasks
    THEN DOMAIN d = {}
    ELSE /\ "task_id" \in DOMAIN d
         /\ ("output_file" \in DOMAIN d) = (task[t].status = COMPLETED)
         /\ ("processing_time" \in DOMAIN d) = (task[t].start_time # 0 /\ task[t].end_time # 0)
         /\ ("elapsed_time" \in DOMAIN d) = (task[t].start_time # 0 /\ task[t].end_time = 0)
         /\ ("error_message" \in DOMAIN d) = (task[t].error_message # "None")

C10_Witness ==
  \E t \in TaskIds :
    /\ t \in tasks /\ task[t].status = PAUSED /\ task[t].processed_frames > 0
    /\ "elapsed_time" \in DOMAIN GetTaskStatus(t)


\* the step is a delete_task that removed the record or the output file of t
DeleteRemoved(t) ==
  /\ ret = NoRet /\ ret' = NoRet /\ rt' = rt
  /\ (t \in tasks /\ t \notin tasks') \/ (file[t].exists /\ ~file'[t].exists)

\* C11: delete_task never removes the record or the output file of a task whose
\* routine has started and has not finished, whatever requests came before.
C11_DeleteOnlyWhenNotRunning ==
  [][\A t \in TaskIds : DeleteRemoved(t) => rt[t].pc \notin {"open", "loop", "infer"}]_vars


\* ============================================================= src/body.py: the skeleton assembler
\* The detection specifications leave the video subsystem idle.
videoVars == <<scope, impl, ffmpeg_available, tasks, task, video, file, rt, now, owner, creating, ret>>

Idle ==
  /\ scope = [ids |-> {}, frames |-> 0, probed |-> {}]
  /\ impl = "manager"
  /\ ffmpeg_available = FALSE
  /\ InitState

\* a skeleton of NumParts parts (18 in body.py) with at most MaxPeaks peaks per part
NumParts == 4
MaxPeaks == 2
MaxTotalPeaks == 5
Parts == 1..NumParts

\* limbSeq, cut down to the parts above: limbs that follow the tree of the skeleton, each
\* reaching a new part, and then a limb that closes a cycle, as [3, 17] and [6, 18] do
limbSeq == << <<1, 2>>, <<1, 3>>, <<3, 4>>, <<2, 4>> >>

\* `k < 17`: the limbs that may start a new person record
TreeLimbs == 3

\* the final filter: subset[i][-1] < 4, subset[i][-2] / subset[i][-1] < 0.4
MinParts == 4
MinMeanScore == 4

\* scores are counted in tenths
PeakScores == {2, 6}
ConnScores == {1, 5}

\* the placeholder of an empty part slot
Unassigned == 0 - 1

\* peak_counter: ids ascend through the parts in part order; n[p] is len(all_peaks[p])
RECURSIVE PeaksBefore(_, _)
PeaksBefore(n, p) == IF p = 1 THEN 0 ELSE n[p - 1] + PeaksBefore(n, p - 1)

\* variant: the ids start from 0 in every channel
PeakIdPerChannel(n, p, i) == i - 1

\* all_peaks[p][i][3]
PeakId(n, p, i) == PeaksBefore(n, p) + i - 1

\* candidate[id, 2]
ScoreOf(n, ps, id) ==
  LET p == CHOOSE q \in Parts : PeaksBefore(n, q) <= id /\ id < PeaksBefore(n, q) + n[q]
  IN ps[id - PeaksBefore(n, p) + 1]

\* connection_candidate: the pairs (i, j) that passed criterion1 and criterion2, in the
\* order of the two nested loops; acc[<<i, j>>] is score_with_dist_prior, 0 if rejected
Candidates(acc, nA, nB) ==
  LET all == [m \in 1..(nA * nB) |->
                LET i == ((m - 1) \div nB) + 1
                    j == ((m - 1) % nB) + 1
                IN [i |-> i, j |-> j, s |-> acc[<<i, j>>]]]
      Accepted(c) == c.s # 0
  IN SelectSeq(all, Accepted)

\* sorted(connection_candidate, key=lambda x: x[2], reverse=True): stable
RECURSIVE InsertByScore(_, _)
InsertByScore(c, seq) ==
  IF seq = << >> \/ Head(seq).s <= c.s
  THEN <<c>> \o seq
  ELSE <<Head(seq)>> \o InsertByScore(c, Tail(seq))

\* variant: the candidates are taken in the order they were scored
Unsorted(seq) == seq

RECURSIVE Sorted(_)
Sorted(seq) == IF seq = << >> THEN << >> ELSE InsertByScore(Head(seq), Sorted(Tail(seq)))

\* variant: only the partA index is looked up
FreeIgnoringB(connection, c) ==
  \A x \in 1..Len(connection) : connection[x].i # c.i

\* i not in connection[:, 3] and j not in connection[:, 4]
Free(connection, c) ==
  \A x \in 1..Len(connection) : connection[x].i # c.i /\ connection[x].j # c.j

\* the greedy selection loop, with its break at min(nA, nB)
RECURSIVE Select(_, _, _, _, _)
Select(cands, connection, limit, n, limb) ==
  IF cands = << >>
  THEN connection
  ELSE LET c == Head(cands) IN
       IF Free(connection, c)
       THEN LET grown == Append(connection,
                                [a |-> PeakId(n, limb[1], c.i), b |-> PeakId(n, limb[2], c.j),
                                 s |-> c.s, i |-> c.i, j |-> c.j])
            IN IF Len(grown) >= limit THEN grown
               ELSE Select(Tail(cands), grown, limit, n, limb)
       ELSE Select(Tail(cands), connection, limit, n, limb)

Min(a, b) == IF a <= b THEN a ELSE b

\* a row of subset: the part slots, subset[j][-2] and subset[j][-1]
NewRow(n, ps, limb, c) ==
  [slots |-> [p \in Parts |-> IF p = limb[1] THEN c.a ELSE IF p = limb[2] THEN c.b
                                                       ELSE Unassigned],
   score |-> ScoreOf(n, ps, c.a) + ScoreOf(n, ps, c.b) + c.s,
   count |-> 2]

\* subset[j][indexB] = partBs[i]; subset[j][-1] += 1; subset[j][-2] += ...
Extend(n, ps, row, limb, c) ==
  [slots |-> [row.slots EXCEPT ![limb[2]] = c.b],
   score |-> row.score + ScoreOf(n, ps, c.b) + c.s,
   count |-> row.count + 1]

\* variant: the membership test is skipped
DisjointAlways(r1, r2) == TRUE

\* membership: no part slot is occupied in both rows
Disjoint(r1, r2) == \A p \in Parts : ~(r1.slots[p] >= 0 /\ r2.slots[p] >= 0)

\* subset[j1][:-2] += (subset[j2][:-2] + 1); subset[j1][-2:] += subset[j2][-2:]; += edge score
Merge(r1, r2, c) ==
  [slots |-> [p \in Parts |-> r1.slots[p] + r2.slots[p] + 1],
   score |-> r1.score + r2.score + c.s,
   count |-> r1.count + r2.count]

\* np.delete(subset, j, 0)
DeleteRow(subset, j) == [x \in 1..(Len(subset) - 1) |-> IF x < j THEN subset[x] ELSE subset[x + 1]]


\* one pass of the assembly loop body, for connection c of limb k
Assembled(n, ps, subset, k, c) ==
  LET limb == limbSeq[k]
      hits == {j \in 1..Len(subset) :
                 subset[j].slots[limb[1]] = c.a \/ subset[j].slots[limb[2]] = c.b}
      found == Cardinality(hits)
      j1 == CHOOSE j \in hits : \A x \in hits : j <= x
      j2 == CHOOSE j \in hits : \A x \in hits : x <= j
  IN IF found > 2
     THEN [raised |-> TRUE, subset |-> subset]   \* subset_idx[found] = j: IndexError
     ELSE [raised |-> FALSE,
           subset |->
             IF found = 1
             THEN IF subset[j1].slots[limb[2]] # c.b
                  THEN [subset EXCEPT ![j1] = Extend(n, ps, @, limb, c)]
                  ELSE subset
             ELSE IF found = 2
             THEN IF Disjoint(subset[j1], subset[j2])
                  THEN DeleteRow([subset EXCEPT ![j1] = Merge(@, subset[j2], c)], j2)
                  ELSE [subset EXCEPT ![j1] = Extend(n, ps, @, limb, c)]
             ELSE IF k <= TreeLimbs
                  THEN Append(subset, NewRow(n, ps, limb, c))
                  ELSE subset]

\* variant: only the part count decides
DeleteIdxCountOnly(subset) ==
  {i \in 1..Len(subset) : subset[i].count < MinParts}

\* deleteIdx: rows with too few parts or too low a mean score (score in tenths)
DeleteIdx(subset) ==
  {i \in 1..Len(subset) :
     subset[i].count < MinParts \/ subset[i].score < MinMeanScore * subset[i].count}

\* np.delete(subset, deleteIdx, axis=0)
Kept(subset, deleteIdx) ==
  LET RECURSIVE keep(_)
      keep(i) == IF i > Len(subset) THEN << >>
                 ELSE (IF i \in deleteIdx THEN << >> ELSE <<subset[i]>>) \o keep(i + 1)
  IN keep(1)

\* the assembler's state after peak extraction: the peaks found, nothing matched yet
InitBody ==
  /\ Idle
  /\ \E n \in [Parts -> 0..MaxPeaks], ps \in [1..MaxPeaks -> PeakScores] :
       /\ PeaksBefore(n, NumParts) + n[NumParts] <= MaxTotalPeaks
       /\ det = [pc |-> "match", n |-> n, ps |-> ps, k |-> 1, i |-> 1, cand |-> << >>,
              connection_all |-> [k \in 1..Len(limbSeq) |-> << >>],
              special_k |-> {}, subset |-> << >>, deleteIdx |-> {}]

\* after limb k of the first loop
Matched(d, cand, connection, special) ==
  [d EXCEPT !.cand = cand,
            !.connection_all[d.k] = connection,
            !.special_k = IF special THEN @ \cup {d.k} ELSE @,
            !.k = IF d.k = Len(limbSeq) THEN 1 ELSE d.k + 1,
            !.pc = IF d.k = Len(limbSeq) THEN "assemble" ELSE "match"]

\* first loop, nA != 0 and nB != 0: score the pairs, sort, select
MatchLimb ==
  /\ det.pc = "match"
  /\ LET limb == limbSeq[det.k]
         nA == det.n[limb[1]]
         nB == det.n[limb[2]]
     IN /\ nA # 0 /\ nB # 0
        /\ \E acc \in [(1..nA) \X (1..nB) -> {0} \cup ConnScores] :
             LET cand == Sorted(Candidates(acc, nA, nB))
             IN det' = Matched(det, cand, Select(cand, << >>, Min(nA, nB), det.n, limb), FALSE)
  /\ UNCHANGED videoVars

\* first loop, a part without peaks: special_k.append(k)
SkipLimb ==
  /\ det.pc = "match"
  /\ LET limb == limbSeq[det.k] IN det.n[limb[1]] = 0 \/ det.n[limb[2]] = 0
  /\ det' = Matched(det, << >>, << >>, TRUE)
  /\ UNCHANGED videoVars

\* second loop: one connection of limb k
Connect ==
  /\ det.pc = "assemble"
  /\ det.k \notin det.special_k /\ det.i <= Len(det.connection_all[det.k])
  /\ LET out == Assembled(det.n, det.ps, det.subset, det.k, det.connection_all[det.k][det.i])
     IN det' = [det EXCEPT !.subset = out.subset, !.i = @ + 1, !.cand = << >>,
                           !.pc = IF out.raised THEN "raised" ELSE @]
  /\ UNCHANGED videoVars

\* second loop: limb k is done (or is in special_k)
NextLimb ==
  /\ det.pc = "assemble"
  /\ det.k \in det.special_k \/ det.i > Len(det.connection_all[det.k])
  /\ det' = [det EXCEPT !.k = IF det.k = Len(limbSeq) THEN @ ELSE @ + 1, !.i = 1,
                        !.cand = << >>,
                        !.pc = IF det.k = Len(limbSeq) THEN "filter" ELSE @]
  /\ UNCHANGED videoVars

\* the final filter and the return of candidate, subset
FilterRows ==
  /\ det.pc = "filter"
  /\ LET deleteIdx == DeleteIdx(det.subset)
     IN det' = [det EXCEPT !.deleteIdx = deleteIdx, !.subset = Kept(det.subset, deleteIdx),
                           !.pc = "done"]
  /\ UNCHANGED videoVars

NextBody == MatchLimb \/ SkipLimb \/ Connect \/ NextLimb \/ FilterRows

SpecBody == InitBody /\ [][NextBody]_vars


\* C12: every Person Record the body detection call returns has at least 4 parts and a
\* mean score (total score / part count) of at least 0.4.
C12_ReturnedRecordsPassFilter ==
  det.pc = "done" =>
    \A i \in 1..Len(det.subset) :
      det.subset[i].count >= 4 /\ det.subset[i].score >= 4 * det.subset[i].count

C12_Witness ==
  det.pc = "done" /\ Len(det.subset) >= 1 /\ det.deleteIdx # {}

\* C13: the connections selected for a limb are a one-to-one matching: no partA peak and
\* no partB peak is in two of them, and there are at most min(|partA|, |partB|).
C13_OneToOneMatching ==
  det.pc \in {"match", "assemble"} =>
    \A k \in 1..Len(limbSeq) :
      LET connection == det.connection_all[k] IN
      /\ \A x, y \in 1..Len(connection) :
           x # y => connection[x].a # connection[y].a /\ connection[x].b # connection[y].b
      /\ Len(connection) <= Min(det.n[limbSeq[k][1]], det.n[limbSeq[k][2]])

C13_Witness ==
  /\ det.pc = "match" /\ det.k > 1
  /\ Len(det.cand) >= 3 /\ Len(det.connection_all[det.k - 1]) = 2

\* C14: two Person Records are merged only when their occupied part slots are disjoint;
\* the merged record holds in every slot the id one of the two held there or the
\* placeholder, its part count is the sum of the two counts, its score the sum of the two
\* scores plus the score of the connecting edge, and the second record leaves the table.
C14_MergeOnlyDisjoint ==
  [][det.pc = "assemble" /\ Len(det'.subset) < Len(det.subset) =>
       LET old == det.subset
           new == det'.subset
           c == det.connection_all[det.k][det.i]
       IN \E j1, j2 \in 1..Len(old) :
            /\ j1 < j2
            /\ \A p \in Parts : old[j1].slots[p] = Unassigned \/ old[j2].slots[p] = Unassigned
            /\ Len(new) = Len(old) - 1
            /\ \A p \in Parts :
                 new[j1].slots[p] = IF old[j1].slots[p] # Unassigned THEN old[j1].slots[p]
                                    ELSE old[j2].slots[p]
            /\ new[j1].count = old[j1].count + old[j2].count
            /\ new[j1].score = old[j1].score + old[j2].score + c.s
            /\ \A x \in 1..Len(new) :
                 x # j1 => new[x] = IF x < j2 THEN old[x] ELSE old[x + 1]]_vars

C14_Witness ==
  /\ det.pc = "assemble" /\ det.k = 4 /\ det.i = 2
  /\ det.connection_all[2] = << >>
  /\ Len(det.subset) = 1 /\ det.subset[1].count = 4


\* ============================================================= peak extraction (body.py, hand.py)
\* One row of a heatmap channel, Width pixels wide; heat is counted in units of 0.05.
Width == 5
NumChannels == 2
Heat == {0, 3, 20}

\* thre1 = 0.1 (body.py), thre = 0.05 (hand.py)
Thre1 == 2
Thre == 1

\* gaussian_blur(..., (7, 7), sigma=3): the taps exp(-d*d/18) for d = 0..3, as integers;
\* a smoothed value is kept as the weighted sum, KernelSum times the mean.  The call is
\* taken to be the Gaussian blur its arguments are those of (torchvision's
\* transforms.functional.gaussian_blur); F is bound to torch.nn.functional in both files.
Kernel == <<18, 17, 14, 11>>
KernelSum == 102

\* the reflecting border of the blur
Reflect(i) == IF i < 1 THEN 2 - i ELSE IF i > Width THEN 2 * Width - i ELSE i

RECURSIVE Taps(_, _, _)
Taps(h, x, d) ==
  IF d = 0 THEN Kernel[1] * h[x]
  ELSE Kernel[d + 1] * (h[Reflect(x - d)] + h[Reflect(x + d)]) + Taps(h, x, d - 1)

\* smoothed
Smoothed(h) == [x \in 1..Width |-> Taps(h, x, Len(Kernel) - 1)]

\* max_pool2d(smoothed, 3, stride=1, padding=1)
MaxMap(sm) ==
  [x \in 1..Width |->
     LET nb == {y \in 1..Width : y \in (x - 1)..(x + 1)}
     IN CHOOSE v \in {sm[y] : y \in nb} : \A y \in nb : sm[y] <= v]

\* variant: the threshold is applied to the heatmap, not to the smoothed map
PeaksBinaryRawThreshold(h) ==
  LET sm == Smoothed(h) IN
  {x \in 1..Width : sm[x] = MaxMap(sm)[x] /\ h[x] > Thre1}

\* variant: every pixel above the threshold is a peak, without the max-pool comparison
PeaksBinaryNoPool(h) ==
  LET sm == Smoothed(h) IN
  {x \in 1..Width : sm[x] > Thre1 * KernelSum}

\* peaks_binary = (smoothed == max_map) & (smoothed > thre1)
PeaksBinary(h) ==
  LET sm == Smoothed(h) IN
  {x \in 1..Width : sm[x] = MaxMap(sm)[x] /\ sm[x] > Thre1 * KernelSum}

\* torch.nonzero: the coordinates in ascending order
RECURSIVE Ascending(_)
Ascending(S) ==
  IF S = {} THEN << >>
  ELSE LET m == CHOOSE x \in S : \A y \in S : x <= y IN <<m>> \o Ascending(S \ {m})

\* part_peaks: (x, score, id) of every peak of the channel; coordinates count from 0
PartPeaks(h, peak_counter) ==
  LET coords == Ascending(PeaksBinary(h)) IN
  [idx \in 1..Len(coords) |->
     [x |-> coords[idx] - 1, score |-> h[coords[idx]], id |-> peak_counter + idx - 1]]

\* part_map.max()
MaxVal(sm) == CHOOSE v \in {sm[x] : x \in 1..Width} : \A x \in 1..Width : sm[x] <= v

\* variant: the maximum of the heatmap is located, not the maximum of the smoothed map
HandPeakOfRaw(h) ==
  IF MaxVal(Smoothed(h)) <= Thre * KernelSum
  THEN <<0, 0>>
  ELSE <<(CHOOSE x \in 1..Width : h[x] = MaxVal(h) /\ \A y \in 1..(x - 1) : h[y] # MaxVal(h)) - 1, 0>>

\* hand.py: the placeholder [0, 0], or [x, y] of the first pixel that holds the maximum
HandPeak(h) ==
  LET sm == Smoothed(h)
      max_val == MaxVal(sm)
  IN IF max_val <= Thre * KernelSum
     THEN <<0, 0>>
     ELSE <<(CHOOSE x \in 1..Width : sm[x] = max_val /\ \A y \in 1..(x - 1) : sm[y] # max_val) - 1, 0>>

\* either extractor, its network outputs averaged, before the loop over the channels
InitPeaks ==
  /\ Idle
  /\ \E kind \in {"body", "hand"} :
       det = [pc |-> "peaks", kind |-> kind, part |-> 1, heat |-> << >>,
              all_peaks |-> << >>, peak_counter |-> 0]

\* body.py: one pass of `for part in range(18)`
BodyPart ==
  /\ det.pc = "peaks" /\ det.kind = "body" /\ det.part <= NumChannels
  /\ \E h \in [1..Width -> Heat] :
       LET part_peaks == PartPeaks(h, det.peak_counter)
       IN det' = [det EXCEPT !.heat = h, !.part = @ + 1,
                             !.all_peaks = Append(@, part_peaks),
                             !.peak_counter = @ + Len(part_peaks)]
  /\ UNCHANGED videoVars

\* hand.py: one pass of `for part in range(21)`
HandPart ==
  /\ det.pc = "peaks" /\ det.kind = "hand" /\ det.part <= NumChannels
  /\ \E h \in [1..Width -> Heat] :
       det' = [det EXCEPT !.heat = h, !.part = @ + 1, !.all_peaks = Append(@, HandPeak(h))]
  /\ UNCHANGED videoVars

\* the loop over the channels is over: all_peaks goes on (body) or is returned (hand)
PeaksDone ==
  /\ det.pc = "peaks" /\ det.part > NumChannels
  /\ det' = [det EXCEPT !.pc = "done"]
  /\ UNCHANGED videoVars

NextPeaks == BodyPart \/ HandPart \/ PeaksDone

SpecPeaks == InitPeaks /\ [][NextPeaks]_vars


\* the body extractor has just gone through a channel
BodyChannelDone == det.pc \in {"peaks", "done"} /\ det.kind = "body" /\ det.part > 1

\* the heatmap has one maximum above threshold 0.1 at x and falls off on both sides
SingleMaximumAt(h, x) ==
  /\ h[x] > Thre1
  /\ \A y \in 1..Width : y # x => h[y] < h[x]
  /\ \A y \in 1..(Width - 1) : (y < x => h[y] <= h[y + 1]) /\ (y >= x => h[y] >= h[y + 1])

\* C15 (as stated): a channel whose heatmap has a single unambiguous local maximum above
\* 0.1 gives exactly one peak, at the coordinate of that maximum.
C15_OnePeakAtHeatmapMaximum ==
  BodyChannelDone =>
    \A x \in 1..Width :
      SingleMaximumAt(det.heat, x) =>
        LET part_peaks == det.all_peaks[det.part - 1]
        IN Len(part_peaks) = 1 /\ part_peaks[1].x = x - 1

\* the smoothed map has exactly one pixel that is above 0.1 and not below a neighbour: x
SingleSmoothedMaximumAt(h, x) ==
  LET sm == Smoothed(h)
      Top(y) == /\ 10 * sm[y] > KernelSum * 20
                /\ \A z \in 1..Width : (z = y - 1 \/ z = y + 1) => sm[z] <= sm[y]
  IN Top(x) /\ \A y \in 1..Width : Top(y) => y = x

\* C15 (amended): a channel whose smoothed map has exactly one local maximum above 0.1
\* gives exactly one peak, at the coordinate of that maximum of the smoothed map, with the
\* score of the unsmoothed heatmap there and the next free id.
C15_OnePeakAtSmoothedMaximum ==
  BodyChannelDone =>
    \A x \in 1..Width :
      SingleSmoothedMaximumAt(det.heat, x) =>
        LET part_peaks == det.all_peaks[det.part - 1]
        IN /\ Len(part_peaks) = 1
           /\ part_peaks[1].x = x - 1
           /\ part_peaks[1].score = det.heat[x]
           /\ part_peaks[1].id = det.peak_counter - 1

C15_Witness ==
  /\ BodyChannelDone /\ det.part > 2
  /\ \E x \in 2..Width : SingleSmoothedMaximumAt(det.heat, x) /\ ~SingleMaximumAt(det.heat, x)
  /\ det.peak_counter >= 2

\* C16: the hand extractor returns one peak per channel; a channel whose smoothed maximum
\* does not exceed 0.05 gives the placeholder (0,0), any other the coordinate at which the
\* smoothed channel holds its maximum.
C16_HandPeaks ==
  det.pc \in {"peaks", "done"} /\ det.kind = "hand" =>
    /\ Len(det.all_peaks) = det.part - 1
    /\ det.pc = "done" => Len(det.all_peaks) = NumChannels
    /\ det.part > 1 =>
         LET sm == Smoothed(det.heat)
             peak == det.all_peaks[det.part - 1]
         IN IF \A x \in 1..Width : 100 * sm[x] <= KernelSum * 100
            THEN peak = <<0, 0>>
            ELSE /\ peak[2] = 0 /\ peak[1] + 1 \in 1..Width
                 /\ \A x \in 1..Width : sm[x] <= sm[peak[1] + 1]

C16_Witness ==
  /\ det.pc = "done" /\ det.kind = "hand"
  /\ det.all_peaks[1] = <<0, 0>> /\ det.all_peaks[NumChannels][1] > 0
  /\ \E x \in 1..Width : det.heat[x] > det.heat[det.all_peaks[NumChannels][1] + 1]


\* ============================================================= detection_service.py: detect_pose
MaxPeople == 1

\* coordinates of a hand peak inside its crop, and of the origin of a crop in the image
Coord == {0, 2}
Offsets == {0, 3}

\* a person record, as far as the hand region proposer looks at it: which arm peaks it has
Person == [left_elbow : BOOLEAN, left_wrist : BOOLEAN, right_elbow : BOOLEAN, right_wrist : BOOLEAN]

\* the subsets a body detection call may return
Subsets == UNION {[1..m -> Person] : m \in 0..MaxPeople}

\* variant: every side of every person is proposed
SideSeenAlways(person, is_left) == TRUE

\* util.handDetect, one side of one person: both the elbow and the wrist peak exist
SideSeen(person, is_left) ==
  IF is_left THEN person.left_elbow /\ person.left_wrist
  ELSE person.right_elbow /\ person.right_wrist

\* util.handDetect: the sides of all persons, left before right, that give a region
RECURSIVE SidesOf(_, _)
SidesOf(subset, m) ==
  IF m > Len(subset) THEN << >>
  ELSE (IF SideSeen(subset[m], TRUE) THEN <<TRUE>> ELSE << >>)
       \o (IF SideSeen(subset[m], FALSE) THEN <<FALSE>> ELSE << >>)
       \o SidesOf(subset, m + 1)

\* util.handDetect: [x, y, w, is_left] per region; org gives the clipped origin of each
HandDetect(subset, org) ==
  LET sides == SidesOf(subset, 1) IN
  [r \in 1..Len(sides) |-> [x |-> org[r][1], y |-> org[r][2], w |-> 1, is_left |-> sides[r]]]

\* variant: the offset is added to both coordinates unless the peak is the placeholder
OffsetUnlessPlaceholder(peak, x, y) ==
  IF peak = <<0, 0>> THEN peak ELSE <<peak[1] + x, peak[2] + y>>

\* peaks[:, 0] = np.where(peaks[:, 0] == 0, peaks[:, 0], peaks[:, 0] + x), and the same for y
Offset(peak, x, y) ==
  <<IF peak[1] = 0 THEN peak[1] ELSE peak[1] + x, IF peak[2] = 0 THEN peak[2] ELSE peak[2] + y>>

\* the dict of the except branch
Failure(e) == [success |-> FALSE, error |-> e]

\* the dict of the try branch: the keys of detection_results, and num_hands of its
\* hands entry (len(all_hand_peaks))
Success(d) == [success |-> TRUE, entries |-> d.results, num_hands |-> Len(d.all_hand_peaks)]

\* process_frame has no except branch of its own: the exception reaches the caller
Propagated(e) == [raises |-> e]

\* process_frame returns the canvas: the frame and the skeletons drawn on it
Canvas(d) == [canvas |-> d.drawn]

\* detect_pose has been called
InitDetect ==
  /\ Idle
  /\ \E include_body, include_hands, draw_result \in BOOLEAN :
       det = [fn |-> "detect_pose",
              pc |-> "body", include_body |-> include_body, include_hands |-> include_hands,
              draw_result |-> draw_result, candidate |-> "None", subset |-> << >>,
              hands_list |-> << >>, h |-> 1, peaks |-> << >>, all_hand_peaks |-> << >>,
              failed |-> 0, results |-> {}, drawn |-> {},
              raised |-> {}, result |-> [success |-> "None"]]

\* process_frame has been called: it always draws
InitFrame ==
  /\ Idle
  /\ \E include_body, include_hands \in BOOLEAN :
       det = [fn |-> "process_frame",
              pc |-> "body", include_body |-> include_body, include_hands |-> include_hands,
              draw_result |-> TRUE, candidate |-> "None", subset |-> << >>,
              hands_list |-> << >>, h |-> 1, peaks |-> << >>, all_hand_peaks |-> << >>,
              failed |-> 0, results |-> {}, drawn |-> {},
              raised |-> {}, result |-> [success |-> "None"]]

\* an exception reaches `except Exception as e` of detect_pose
Caught(d, who) ==
  [d EXCEPT !.pc = "returned", !.raised = @ \cup {who},
            !.result = IF d.fn = "detect_pose" THEN Failure(who) ELSE Propagated(who)]

\* body_estimation(image) and util.draw_bodypose
BodyStage ==
  /\ det.pc = "body"
  /\ IF ~det.include_body
     THEN det' = [det EXCEPT !.pc = "hands"]
     ELSE \/ \E who \in {"body model", "assembler"} : det' = Caught(det, who)
          \/ \E subset \in Subsets :
               \/ det' = [det EXCEPT !.pc = "hands", !.candidate = "array", !.subset = subset,
                                    !.results = @ \cup {"body"},
                                    !.drawn = IF det.draw_result THEN @ \cup {"body"} ELSE @]
               \/ det.draw_result /\ det' = Caught([det EXCEPT !.candidate = "array",
                                                                 !.subset = subset], "renderer")
  /\ UNCHANGED videoVars

\* variant: the hand stage runs whenever it is asked for
HandsWanted(d) == d.include_hands

\* if include_hands and candidate is not None and subset is not None
HandsRun(d) == d.include_hands /\ d.candidate # "None"

\* the guard of the hand stage, and util.handDetect
Propose ==
  /\ det.pc = "hands"
  /\ IF HandsRun(det)
     THEN \E org \in [1..(2 * MaxPeople) -> Offsets \X Offsets] :
            det' = [det EXCEPT !.pc = "hand", !.hands_list = HandDetect(det.subset, org)]
     ELSE det' = [det EXCEPT !.pc = "finish"]
  /\ UNCHANGED videoVars

\* one pass of `for x, y, w, is_left in hands_list`, with its own try/except
HandStage ==
  /\ det.pc = "hand" /\ det.h <= Len(det.hands_list)
  /\ LET hand == det.hands_list[det.h] IN
     \/ det' = [det EXCEPT !.h = @ + 1, !.raised = @ \cup {"hand model"},
                            !.failed = @ + 1]
     \/ \E peaks \in [1..NumChannels -> Coord \X Coord] :
          det' = [det EXCEPT
                    !.h = @ + 1, !.peaks = peaks,
                    !.all_hand_peaks =
                       Append(@, [peaks |-> [c \in 1..NumChannels |->
                                               Offset(peaks[c], hand.x, hand.y)],
                                  bbox |-> <<hand.x, hand.y, hand.w>>,
                                  is_left |-> hand.is_left])]
  /\ UNCHANGED videoVars

\* after the loop: the hands entry of the result and util.draw_handpose
HandsDone ==
  /\ det.pc = "hand" /\ det.h > Len(det.hands_list)
  /\ \/ det' = [det EXCEPT !.pc = "finish", !.results = @ \cup {"hands"},
                           !.drawn = IF det.draw_result THEN @ \cup {"hands"} ELSE @]
     \/ det.draw_result /\ det' = Caught([det EXCEPT !.results = @ \cup {"hands"}], "renderer")
  /\ UNCHANGED videoVars

\* result_image, keypoints_summary, processing_time; return result
Return ==
  /\ det.pc = "finish"
  /\ det' = [det EXCEPT !.pc = "returned",
                        !.result = IF det.fn = "detect_pose" THEN Success(det) ELSE Canvas(det)]
  /\ UNCHANGED videoVars

NextDetect == BodyStage \/ Propose \/ HandStage \/ HandsDone \/ Return

SpecDetect == InitDetect /\ [][NextDetect]_vars

\* both entry points of the detection: detect_pose and process_frame
InitPose == InitDetect \/ InitFrame

SpecPose == InitPose /\ [][NextDetect]_vars


\* C17: detect_pose never raises; whenever the body model, the hand model, the assembler or
\* the renderer raised during the call it returns success == false with that exception's
\* message, and when nothing raised it returns success == true.
C17_FailureIffRaised ==
  det.pc = "returned" =>
    /\ det.result.success \in BOOLEAN
    /\ det.raised # {} => det.result.success = FALSE /\ det.result.error \in det.raised
    /\ det.raised = {} => det.result.success = TRUE

\* the last entry of all_hand_peaks, appended by the step being taken
Appended == det'.all_hand_peaks[Len(det'.all_hand_peaks)]

\* C18: a hand peak (px, py) of a crop with origin (x, y) is reported as (px + x, py + y)
\* unless it is the placeholder (0, 0), which stays (0, 0).
C18_OffsetsAdded ==
  [][(det.pc = "hand" /\ det'.pc = "hand" /\ Len(det'.all_hand_peaks) > Len(det.all_hand_peaks)) =>
       \A c \in 1..NumChannels :
         Appended.peaks[c] =
           IF det'.peaks[c] = <<0, 0>> THEN <<0, 0>>
           ELSE <<det'.peaks[c][1] + Appended.bbox[1], det'.peaks[c][2] + Appended.bbox[2]>>]_vars

\* the regions of one side in hands_list
RegionsOf(is_left) == {r \in 1..Len(det.hands_list) : det.hands_list[r].is_left = is_left}

\* the persons that have the elbow or the wrist peak of one side
PersonsWith(is_left) ==
  {m \in 1..Len(det.subset) :
     IF is_left THEN det.subset[m].left_elbow \/ det.subset[m].left_wrist
     ELSE det.subset[m].right_elbow \/ det.subset[m].right_wrist}

\* C19: the hand region proposer gives at most one region per side of a person, so zero, one
\* or two per person, and none for a side whose wrist and elbow peaks are both missing; the
\* call goes on without an error.
C19_RegionsPerPerson ==
  det.pc = "hand" =>
    /\ det.raised \subseteq {"hand model"}
    /\ Len(det.hands_list) <= 2 * Len(det.subset)
    /\ \A is_left \in BOOLEAN : Cardinality(RegionsOf(is_left)) <= Cardinality(PersonsWith(is_left))

C19_Witness ==
  /\ det.pc = "hand" /\ Len(det.subset) = 1 /\ Len(det.hands_list) = 1
  /\ ~det.subset[1].left_elbow /\ ~det.subset[1].left_wrist
  /\ det.hands_list[1].is_left = FALSE


\* the routines that are inside process_frame of the one video service
Inferring == {t \in TaskIds : rt[t].pc = "infer"}

\* C20: no two inference calls run at the same time on the same model instance.
C20_InferenceSerialized == Cardinality(Inferring) <= 1


\* ============================================================= claims C21..C30
\* the file upload_video saved for task t is on disk
Uploaded(t) == video[t] # "absent"

\* the payload uploaded for task t cannot be probed as a video
Unprobeable(t) == video[t] = "unreadable"

\* C21: an upload whose payload cannot be probed as a video is rejected and leaves
\* nothing behind: no record in the task collection and no uploaded file on disk.
C21_RejectedUploadLeavesNothing ==
  \A t \in TaskIds : Unprobeable(t) => ~Uploaded(t) /\ t \notin tasks


\* the step of t's routine that counted one more processed frame
FrameCounted(t) == task'[t].processed_frames = task[t].processed_frames + 1

\* the fraction p is the percentage min(n / total * 100, 100)
IsPercentage(p, n, total) ==
  /\ p[2] > 0
  /\ IF n <= total THEN p[1] * total = n * 100 * p[2] ELSE p[1] = 100 * p[2]

\* 0 <= progress <= 100 for every task
ProgressInRange ==
  \A t \in TaskIds : task[t].progress[2] > 0 /\ 0 <= task[t].progress[1]
                     /\ task[t].progress[1] <= 100 * task[t].progress[2]

\* C22: whenever total_frames > 0, after each processed frame progress is
\* min(processed_frames / total_frames * 100, 100); progress stays within 0..100 in
\* every state, also when more frames are decoded than the probe reported.
C22_ProgressClamped ==
  /\ []ProgressInRange
  /\ [][\A t \in TaskIds :
          FrameCounted(t) /\ task'[t].total_frames > 0
            => IsPercentage(task'[t].progress, task'[t].processed_frames,
                            task'[t].total_frames)]_vars

C22_Witness ==
  \E t \in TaskIds :
    /\ task[t].total_frames > 0 /\ task[t].processed_frames > task[t].total_frames
    /\ task[t].status = PROCESSING /\ task[t].progress = <<100, 1>>


\* ============================================================= body.py: scoring a pair of peaks
\* mid_num samples of the projected PAF along the segment, in hundredths
mid_num == 10
Thre2 == 5
Samples == {0 - 30, 5, 40}

\* oriImg.shape[0] and the length of the segment, in pixels
Heights == {4}
Norms == {1, 3, 8}

RECURSIVE Sum(_)
Sum(seq) == IF seq = << >> THEN 0 ELSE Head(seq) + Sum(Tail(seq))

\* (score_midpts > thre2).sum().item()
Exceeding(score_midpts) ==
  Cardinality({m \in 1..Len(score_midpts) : score_midpts[m] > Thre2})

\* variant: 80% of the samples are enough
Criterion1AtLeast(score_midpts) == 10 * Exceeding(score_midpts) >= 8 * mid_num

\* criterion1 = (score_midpts > thre2).sum().item() > 0.8 * mid_num
Criterion1(score_midpts) == 10 * Exceeding(score_midpts) > 8 * mid_num

\* score_midpts.mean() + min(0.5 * oriImg.shape[0] / norm - 1, 0), times 200 * mid_num * norm
ScoreWithDistPrior(score_midpts, height, norm) ==
  2 * norm * Sum(score_midpts)
    + 100 * mid_num * (IF height - 2 * norm < 0 THEN height - 2 * norm ELSE 0)

\* criterion2 = score_with_dist_prior > 0
Criterion2(score_midpts, height, norm) == ScoreWithDistPrior(score_midpts, height, norm) > 0

\* one pair (i, j) of the nested loops is about to be scored
InitLimb ==
  /\ Idle
  /\ \E score_midpts \in [1..mid_num -> Samples], height \in Heights, norm \in Norms :
       det = [pc |-> "pair", score_midpts |-> score_midpts, height |-> height,
              norm |-> norm, connection_candidate |-> << >>]

\* if criterion1 and criterion2: connection_candidate.append(...)
ScorePair ==
  /\ det.pc = "pair"
  /\ det' = [det EXCEPT
               !.pc = "scored",
               !.connection_candidate =
                  IF Criterion1(det.score_midpts) /\ Criterion2(det.score_midpts, det.height, det.norm)
                  THEN Append(@, ScoreWithDistPrior(det.score_midpts, det.height, det.norm))
                  ELSE @]
  /\ UNCHANGED videoVars

NextLimbScore == ScorePair

SpecLimb == InitLimb /\ [][NextLimbScore]_vars

\* C23 as stated: a pair is a connection candidate if and only if at least 8 of its 10
\* samples exceed 0.05 and its score with distance prior is positive.
C23_AcceptedIffEightOfTen ==
  det.pc = "scored" =>
    (det.connection_candidate # << >>
       <=> /\ Exceeding(det.score_midpts) >= 8
           /\ ScoreWithDistPrior(det.score_midpts, det.height, det.norm) > 0)

\* C23: a pair is a connection candidate if and only if more than 8 of its 10 samples
\* exceed 0.05 (at least 9) and its score with distance prior is positive.
C23_AcceptedIffMoreThanEight ==
  det.pc = "scored" =>
    (det.connection_candidate # << >>
       <=> /\ Exceeding(det.score_midpts) >= 9
           /\ ScoreWithDistPrior(det.score_midpts, det.height, det.norm) > 0)

C23_Witness ==
  /\ det.pc = "scored" /\ Exceeding(det.score_midpts) = 9
  /\ det.norm = 3 /\ det.connection_candidate # << >>


\* the connection the assembly loop is at
Current == det.connection_all[det.k][det.i]

\* the rows of subset that hold partA or partB of the current connection
Hits ==
  {j \in 1..Len(det.subset) :
     \/ det.subset[j].slots[limbSeq[det.k][1]] = Current.a
     \/ det.subset[j].slots[limbSeq[det.k][2]] = Current.b}

\* a pass of the assembly loop in which the connection matches row j and no other
MatchesOnly(j) ==
  /\ det.pc = "assemble" /\ det'.pc = "assemble" /\ det'.i = det.i + 1
  /\ Hits = {j}

\* C24: when a connection matches exactly one person record, the record changes only if
\* the limb's target slot was empty: the slot is filled, part-count grows by 1 and
\* total-score by the edge score plus the new peak's confidence; an occupied target slot
\* leaves the record as it was.
C24_ExtendOnlyEmptySlot ==
  [][\A j \in 1..MaxTotalPeaks :
       MatchesOnly(j) =>
         LET row == det.subset[j]
             b == limbSeq[det.k][2]
         IN IF row.slots[b] = Unassigned
            THEN /\ det'.subset[j].slots = [row.slots EXCEPT ![b] = Current.b]
                 /\ det'.subset[j].count = row.count + 1
                 /\ det'.subset[j].score = row.score + Current.s + ScoreOf(det.n, det.ps, Current.b)
            ELSE det'.subset[j] = row]_vars


\* pixels next to x in the row
Neighbours(x) == {y \in 1..Width : y = x - 1 \/ y = x + 1}

\* the pixels of the channel just gone through that were reported as peaks
Reported == {det.all_peaks[det.part - 1][idx].x + 1 : idx \in 1..Len(det.all_peaks[det.part - 1])}

\* ids ascend through the channels in channel order and, within a channel, in peak order
IdsAscend ==
  \A c1, c2 \in 1..Len(det.all_peaks) :
    \A i1 \in 1..Len(det.all_peaks[c1]), i2 \in 1..Len(det.all_peaks[c2]) :
      (c1 < c2 \/ (c1 = c2 /\ i1 < i2)) => det.all_peaks[c1][i1].id < det.all_peaks[c2][i2].id

\* C25 as stated: every reported body peak is a strict local maximum of the smoothed
\* channel and exceeds 0.1, so no two peaks of a channel are adjacent, plateaus
\* included; ids are globally unique and ascend in channel order.
C25_StrictLocalMaxima ==
  BodyChannelDone =>
    LET sm == Smoothed(det.heat) IN
    /\ \A x \in Reported : sm[x] > Thre1 * KernelSum /\ \A y \in Neighbours(x) : sm[y] < sm[x]
    /\ \A x \in Reported : Neighbours(x) \cap Reported = {}
    /\ IdsAscend

\* C25: every reported body peak exceeds 0.1 and is not below any neighbour in the
\* smoothed channel; two peaks of a channel are adjacent only where the smoothed values
\* are equal; ids are globally unique and ascend in channel order.
C25_LocalMaxima ==
  BodyChannelDone =>
    LET sm == Smoothed(det.heat) IN
    /\ \A x \in Reported : sm[x] > Thre1 * KernelSum /\ \A y \in Neighbours(x) : sm[y] <= sm[x]
    /\ \A x \in Reported : \A y \in Neighbours(x) : (y \in Reported => sm[y] = sm[x])
    /\ IdsAscend

C25_Witness ==
  /\ BodyChannelDone /\ det.part > 2 /\ Len(det.all_peaks[1]) > 0
  /\ \E x \in Reported : Neighbours(x) \cap Reported # {}
  /\ \E x \in 1..Width : x \notin Reported


\* candidate = np.array([item for sublist in all_peaks for item in sublist]), from part p on;
\* a row holds the peak's score and id, and here also the channel it was found in
RECURSIVE candidate(_, _, _)
candidate(n, ps, p) ==
  IF p > NumParts THEN << >>
  ELSE [i \in 1..n[p] |-> [score |-> ps[i], id |-> PeakId(n, p, i), part |-> p]]
       \o candidate(n, ps, p + 1)

\* C26: in the output of a body detection call the id of each candidate peak is its row
\* index in the flattened candidate table, and every assigned slot of every output person
\* record holds a valid row index of that table, of a peak detected in the slot's own
\* part channel.
C26_IdsIndexCandidateTable ==
  det.pc = "done" =>
    LET table == candidate(det.n, det.ps, 1) IN
    /\ \A r \in 1..Len(table) : table[r].id = r - 1
    /\ \A j \in 1..Len(det.subset) : \A p \in Parts :
         LET slot == det.subset[j].slots[p] IN
         slot # Unassigned => slot \in 0..(Len(table) - 1) /\ table[slot + 1].part = p

C26_Witness ==
  /\ det.pc = "done" /\ Len(det.subset) >= 1
  /\ \E j \in 1..Len(det.subset) : \E p \in Parts : det.subset[j].slots[p] > p - 1
  /\ \E p \in Parts : det.n[p] = 2


\* the step of t's routine that ends a loop iteration on a decoded frame
FrameDone(t) == rt[t].pc = "infer" /\ rt'[t].pc # "infer"

\* the step left t failed with its routine over
FailedForGood(t) == task'[t].status = FAILED /\ rt'[t].pc = "done"

\* C27: within a task the writer in use changes at most once, and only from the external
\* muxer to the basic writer; once the basic writer is in use or being opened as the
\* fallback, a failure to open it or a failed write makes the task failed: no second
\* fallback, no retry.
C27_OneFallback ==
  [][\A t \in TaskIds :
       /\ rt[t].writer = "VideoWriter" => rt'[t].writer = "VideoWriter" /\ ~rt'[t].use_ffmpeg
       /\ rt[t].writer = "FFmpegWriter" => rt'[t].writer \in {"FFmpegWriter", "VideoWriter"}
       /\ rt[t].fallback_at # 0 => rt'[t].fallback_at = rt[t].fallback_at
       /\ FrameDone(t) /\ (rt[t].writer = "VideoWriter" \/ rt[t].use_ffmpeg # rt'[t].use_ffmpeg)
            => \/ FrameCounted(t) /\ rt'[t].writer = "VideoWriter" /\ rt'[t].writer_open
               \/ FailedForGood(t)]_vars

C27_Witness ==
  \E t \in TaskIds :
    /\ task[t].status = FAILED /\ task[t].error_message = "write"
    /\ rt[t].writer = "VideoWriter" /\ rt[t].fallback_at # 0 /\ rt[t].pos > rt[t].fallback_at


\* the step is one of t's own processing routine
OwnRoutineStep(t) == rt'[t] # rt[t]

\* C28: once a task record exists, its fields are written only by the task's own
\* processing routine: by no request handler and by no other task.
C28_OnlyRoutineWrites ==
  [][\A t \in TaskIds :
       t \in tasks /\ task'[t] # task[t]
         => OwnRoutineStep(t) /\ \A u \in TaskIds \ {t} : ~OwnRoutineStep(u)]_vars


\* C29: the frame loop yields to the scheduler at least once for every 2 frames: a frame
\* after which the routine does not yield is the first of the routine or follows a frame
\* after which it did, so a waiting status query is served within 2 frames.
C29_YieldsEverySecondFrame ==
  [][\A t \in TaskIds :
       FrameCounted(t) /\ rt'[t].yields = 0
         => rt[t].frame_count = 0 \/ rt[t].yields = 1]_vars


\* C30: a pause request succeeds only on a task whose status is processing and a resume
\* request only on one whose status is paused; on any other status or an unknown id the
\* request is rejected and the record is left unchanged.  The status is the one the
\* handler reads; a pause sets the status to paused, a resume to processing, and
\* neither changes anything else.
C30_PauseResumeGuarded ==
  [][/\ ret = NoRet /\ ret'.op \in {"pausing", "resuming"}
          => /\ ret'.tid \in tasks /\ task' = task
             /\ task[ret'.tid].status = IF ret'.op = "pausing" THEN PROCESSING ELSE PAUSED
     /\ ret.op \in {"pausing", "resuming"} /\ ret' = NoRet
          => task' = [task EXCEPT ![ret.tid].status =
                                     IF ret.op = "pausing" THEN PAUSED ELSE PROCESSING]
     /\ ret = NoRet /\ ret' = NoRet /\ rt' = rt /\ tasks' = tasks => task' = task]_vars

C30_Witness ==
  \E tid \in TaskIds : tid \in tasks /\ task[tid].status = PAUSED /\ rt[tid].pc = "infer"


\* ============================================================= ffmpeg_utils.py: FFmpegWriter
MaxCalls == 3

\* heights and widths of frames, in pixels
Dims == {2, 3}

\* width += 1 / height += 1 when odd
Even(d) == IF d % 2 # 0 THEN d + 1 ELSE d

\* actual_height != expected_height or actual_width != expected_width, negated
SizeMatches(framesize, frame) == frame[1] = framesize[1] /\ frame[2] = framesize[2]

\* FFmpegWriter.__init__ and _create_ffmpeg_process have returned for size (height, width):
\* self.input_framesize = (height, width) after the rounding, the process runs
InitFFmpegWriter ==
  /\ Idle
  /\ \E height \in Dims, width \in Dims :
       det = [pc |-> "writer", size |-> <<height, width>>,
              input_framesize |-> <<Even(height), Even(width)>>,
              closed |-> FALSE, ff_proc |-> "alive", stdin |-> "open", written |-> 0,
              calls |-> 0, op |-> "none", frame |-> <<0, 0>>, result |-> "none"]

\* the outcome of a call, recorded for the caller
Called(d, op, frame, result) ==
  [d EXCEPT !.calls = @ + 1, !.op = op, !.frame = frame, !.result = result]

\* write_frame(frame)
write_frame ==
  /\ det.pc = "writer" /\ det.calls < MaxCalls
  /\ \E frame \in Dims \X Dims :
       IF det.closed
       THEN det' = Called(det, "write_frame", frame, "closed")
       ELSE IF det.ff_proc # "alive"
       THEN det' = Called(det, "write_frame", frame, "terminated")
       ELSE IF ~SizeMatches(det.input_framesize, frame)
       THEN det' = Called(det, "write_frame", frame, "size")
       ELSE \/ det' = Called([det EXCEPT !.written = @ + 1], "write_frame", frame, "ok")
            \/ \* the muxer went away after poll(): BrokenPipeError
               det' = Called([det EXCEPT !.ff_proc = "exited"], "write_frame", frame, "pipe")
  /\ UNCHANGED videoVars

\* the muxer process ends by itself: an error, or the end of its input
exits ==
  /\ det.pc = "writer" /\ det.ff_proc = "alive"
  /\ det' = [det EXCEPT !.ff_proc = "exited"]
  /\ UNCHANGED videoVars

\* Popen.communicate(timeout=...) of a process with three pipes, after stdin was closed by
\* the caller: it starts with self.stdin.flush(), which raises ValueError on a closed file
communicate(d) ==
  IF d.stdin = "closed" THEN {"ValueError"}
  ELSE IF d.ff_proc = "alive" THEN {"returned", "TimeoutExpired"} ELSE {"returned"}

\* close()
close ==
  /\ det.pc = "writer" /\ det.calls < MaxCalls
  /\ IF det.closed
     THEN det' = Called(det, "close", <<0, 0>>, "no-op")
     ELSE \/ \* self.ff_proc.stdin.close() raises (the pipe is broken): except Exception
             /\ det.ff_proc # "alive"
             /\ det' = Called([det EXCEPT !.closed = TRUE], "close", <<0, 0>>, "error")
          \/ \* stdin is closed, then communicate(timeout=30)
             LET d1 == [det EXCEPT !.stdin = "closed"] IN
             \E c \in communicate(d1) :
               det' = IF c = "returned"
                      THEN Called([d1 EXCEPT !.closed = TRUE, !.ff_proc = "exited"],
                                  "close", <<0, 0>>, "closed")
                      ELSE IF c = "TimeoutExpired"
                      THEN Called([d1 EXCEPT !.closed = TRUE, !.ff_proc = "killed"],
                                  "close", <<0, 0>>, "killed")
                      ELSE Called([d1 EXCEPT !.closed = TRUE], "close", <<0, 0>>, "error")
  /\ UNCHANGED videoVars

NextWriter == write_frame \/ exits \/ close

SpecWriter == InitFFmpegWriter /\ [][NextWriter]_vars

\* the step is a call of op
Call(op) == det.pc = "writer" /\ det'.calls = det.calls + 1 /\ det'.op = op

\* C31: write_frame never writes to the pipe when the writer is closed or the muxer has
\* exited, and raises instead; a broken pipe is raised too; close() is idempotent and
\* leaves the writer closed on every path, and a muxer that has not ended within the
\* bounded wait is killed: after close() the process does not run on.
C31_WriterGuardsAndClose ==
  [][/\ Call("write_frame")
          => /\ det.closed \/ det.ff_proc # "alive"
                  => det'.written = det.written /\ det'.result \in {"closed", "terminated"}
             /\ det'.written = det.written <=> det'.result # "ok"
     /\ Call("close")
          => /\ det'.closed
             /\ det.closed => det'.result = "no-op" /\ det'.ff_proc = det.ff_proc
             /\ det'.ff_proc # "alive"]_vars

\* C36: a writer constructed for size (height, width) accepts every frame of exactly that
\* size while the muxer is alive, odd sizes included; a frame is rejected for its size
\* only if its size differs from the one given at construction.
C36_AcceptsConstructedSize ==
  [][Call("write_frame") /\ ~det.closed /\ det.ff_proc = "alive"
       => /\ det'.frame = det.size => det'.result \in {"ok", "pipe"}
          /\ det'.result = "size" => det'.frame # det.size]_vars


\* ============================================================= rebuild_tasks_from_files
MaxFiles == 2

\* the entries of the results directory: the name is "<x>.mp4" ("plain"),
\* "<x>_processed_<id>.mp4" ("one") or "<x>_processed_<y>_processed_<id>.mp4" ("two");
\* st_mtime counts in units of 300 s; probe is the frame count get_video_info reports,
\* negative when it raises
DirEntry ==
  [name : {"plain", "one", "two"}, id : {"a", "b"}, st_mtime : {2}, valid : BOOLEAN,
   probe : {-1, 0, 2}]

\* result_dir.glob("*_processed_*.mp4")
Globbed(f) == f.name \in {"one", "two"}

\* "_processed_" in filename and len(filename.split("_processed_")) == 2
TwoParts(f) == f.name = "one"

\* f"{parts[1]}-{int(video_file.stat().st_mtime)}"
RebuiltId(f) == <<f.id, f.st_mtime>>

\* the record built for a file before it is validated
Rebuilt(f) ==
  LET total == IF f.probe < 0 THEN 0 ELSE f.probe IN
  [VideoTask EXCEPT !.status = COMPLETED, !.progress = <<100, 1>>,
                    !.end_time = f.st_mtime, !.start_time = f.st_mtime - 1,
                    !.total_frames = total, !.processed_frames = total]

\* variant: the file is registered without validation
RegistersAny(f) == TRUE

\* if self._validate_output_video(str(video_file))
Registers(f) == f.valid

\* the manager is being constructed: self.tasks = {}, the directory holds some files
InitRebuild ==
  /\ Idle
  /\ \E m \in 0..MaxFiles : \E files \in [1..m -> DirEntry] :
       det = [pc |-> "rebuild", files |-> files, idx |-> 1, tasks |-> Empty]

\* one pass of `for video_file in self.result_dir.glob(...)`, or a file the glob leaves out
ScanFile ==
  /\ det.pc = "rebuild" /\ det.idx <= Len(det.files)
  /\ LET f == det.files[det.idx]
         task_id == RebuiltId(f)
     IN det' = [det EXCEPT
                  !.idx = @ + 1,
                  !.tasks = IF Globbed(f) /\ TwoParts(f) /\ task_id \notin DOMAIN det.tasks
                               /\ Registers(f)
                            THEN [x \in DOMAIN det.tasks \cup {task_id} |->
                                    IF x = task_id THEN Rebuilt(f) ELSE det.tasks[x]]
                            ELSE @]
  /\ UNCHANGED videoVars

\* the loop is over
RebuildDone ==
  /\ det.pc = "rebuild" /\ det.idx > Len(det.files)
  /\ det' = [det EXCEPT !.pc = "rebuilt"]
  /\ UNCHANGED videoVars

NextRebuild == ScanFile \/ RebuildDone

SpecRebuild == InitRebuild /\ [][NextRebuild]_vars

\* C32: the reconciliation adds a record only for a file that follows the naming
\* convention and passes validation; a record it adds is completed, with progress 100
\* and processed_frames = total_frames; a record already in the collection is neither
\* overwritten nor altered.
C32_RebuildAddsOnlyValidated ==
  [][det.pc = "rebuild" /\ det'.pc = "rebuild" =>
       LET f == det.files[det.idx] IN
       /\ DOMAIN det.tasks \subseteq DOMAIN det'.tasks
       /\ \A x \in DOMAIN det.tasks : det'.tasks[x] = det.tasks[x]
       /\ \A x \in DOMAIN det'.tasks \ DOMAIN det.tasks :
            /\ f.name = "one" /\ f.valid /\ x = <<f.id, f.st_mtime>>
            /\ det'.tasks[x].status = COMPLETED
            /\ det'.tasks[x].progress = <<100, 1>>
            /\ det'.tasks[x].processed_frames = det'.tasks[x].total_frames]_vars

C32_Witness ==
  /\ det.pc = "rebuilt" /\ Len(det.files) = 2
  /\ det.files[1].name = "one" /\ det.files[1].valid /\ det.files[1].probe = 2
  /\ det.files[2].name = "one" /\ det.files[2].valid /\ det.files[2].probe = 0
  /\ det.files[2].id = det.files[1].id
  /\ DOMAIN det.tasks = {<<det.files[1].id, 2>>}
  /\ det.tasks[<<det.files[1].id, 2>>].total_frames = 2


\* ------------------------------------------------------------------ claims C33, C34
\* the number of part slots of a row that hold a peak id
Occupied(row) == Cardinality({p \in Parts : row.slots[p] >= 0})

\* C33: in every state of the assembly and in the final output, the part-count of each
\* person record equals the number of its part slots that hold a peak id.
C33_CountIsOccupiedSlots ==
  \A j \in 1..Len(det.subset) : det.subset[j].count = Occupied(det.subset[j])

\* the rows of subset that hold peak id c in some slot
Holding(c) == {j \in 1..Len(det.subset) : \E p \in Parts : det.subset[j].slots[p] = c}

C35_CountedFramesInOutput ==
  \A t \in tasks :
    task[t].status = COMPLETED /\ rt[t].pc = "done" /\ file[t].exists =>
      /\ Len(file[t].frames) = task[t].processed_frames
      /\ \A x, y \in 1..Len(file[t].frames) : x < y => file[t].frames[x] < file[t].frames[y]


\* ------------------------------------------------------------------------ claim C37
\* the scheduling the tasks run under: the event loop runs every callback it was handed
\* and a started thread runs (a scheduled routine starts, although handlers may hold the
\* loop in between), and a handler that was entered runs to its end
Fairness ==
  /\ \A t \in TaskIds : SF_vars(Start(t))
  /\ WF_vars(CreateReturn) /\ WF_vars(PauseWrite) /\ WF_vars(ResumeWrite)
  /\ WF_vars(CleanupReturn) /\ WF_vars(Deliver)

SpecFair == Init /\ [][Next]_vars /\ Fairness

\* a call of cleanup_old_tasks at some time from now on would remove the record of t
Removable(t) ==
  \E current_time \in now..(MaxTime + 1) : IsOld(task[t], current_time, MaxAge)

\* C37: every task record is eventually removable by cleanup_old_tasks (or already
\* gone), the records of tasks that failed at probe time or never started included.
C37_EventuallyRemovable ==
  \A t \in TaskIds : (t \in tasks) ~> (t \notin tasks \/ Removable(t))


\* ------------------------------------------------------------------------ claim C38
\* connection c of a limb was selected from candidate x
Selects(c, x) == c.i = x.i /\ c.j = x.j

\* C38: the greedy selection of a limb is maximal: no accepted candidate is left with
\* both its peaks unused, and every accepted candidate that was not selected shares a
\* peak with a selected edge whose score is at least its own.
C38_GreedyMaximal ==
  [][det.pc = "match" =>
       LET cand == det'.cand
           connection == det'.connection_all[det.k]
       IN \A x \in 1..Len(cand) :
            (\A y \in 1..Len(connection) : ~Selects(connection[y], cand[x])) =>
               /\ \E y \in 1..Len(connection) :
                    connection[y].i = cand[x].i \/ connection[y].j = cand[x].j
               /\ \E y \in 1..Len(connection) :
                    /\ connection[y].i = cand[x].i \/ connection[y].j = cand[x].j
                    /\ connection[y].s >= cand[x].s]_vars

C38_Witness ==
  /\ det.pc = "match" /\ det.k = 2
  /\ Len(det.cand) = 3 /\ Len(det.connection_all[1]) = 2
  /\ det.cand[1].s > det.cand[3].s
  /\ \A y \in 1..2 : ~Selects(det.connection_all[1][y], det.cand[2])


\* ------------------------------------------------------------------------ claim C39
\* C39: the hand stage runs only if the body stage ran in the same call. Hands without
\* body: detect_pose returns success with no hands entry and process_frame returns a
\* canvas without a hand skeleton. Body and hands: the hands entry of a successful
\* detect_pose has num_hands = the number of proposed regions whose extraction did not
\* raise.
C39_HandsOnlyAfterBody ==
  det.pc = "returned" =>
    /\ ~det.include_body /\ det.include_hands =>
         IF det.fn = "detect_pose"
         THEN det.result.success = TRUE /\ "hands" \notin det.result.entries
         ELSE det.result = [canvas |-> {}]
    /\ det.include_body /\ det.include_hands /\ det.fn = "detect_pose"
         /\ det.result.success = TRUE =>
           /\ "hands" \in det.result.entries
           /\ det.result.num_hands = Len(det.hands_list) - det.failed

C39_Witness ==
  /\ det.pc = "returned" /\ det.fn = "detect_pose"
  /\ det.include_body /\ det.include_hands /\ det.result.success = TRUE
  /\ Len(det.hands_list) = 2 /\ det.failed = 1 /\ det.result.num_hands = 1

=============================================================================
